---- MODULE Spec2Model ----
(***************************************************************************)
(* Thesis-supervision server: the request handlers of server/src/handlers  *)
(* over the relational store of server/src/db/schema.ts.                   *)
(*                                                                         *)
(* A table is a set of rows (records); a serial column is a counter that   *)
(* is consumed by every insert attempt.  A handler is one action per       *)
(* awaited store statement, so that statements of concurrent requests      *)
(* interleave exactly as the awaits allow.                                 *)
(***************************************************************************)
EXTENDS Integers, Sequences, FiniteSets, TLC

VARIABLES
    users,            \* usersTable
    students,         \* studentsTable
    lecturers,        \* lecturersTable
    theses,           \* thesesTable
    thesisLecturers,  \* thesisLecturersTable
    guidanceSessions, \* guidanceSessionsTable
    submissions,      \* submissionsTable
    comments,         \* commentsTable
    seq,              \* the serial counters, one per table
    now,              \* Date.now(), in milliseconds
    reg,              \* registerUser calls in flight, per request
    ct,               \* the createThesis call in flight
    call,             \* the call in flight of the other handlers that await twice
    resp,             \* the last completed call: its request and its outcome
    registered        \* history: the registerUser call that wrote each stored user

thesisTables == <<students, lecturers, theses, thesisLecturers>>
sessionTables == <<guidanceSessions, submissions, comments>>
vars == <<users, thesisTables, sessionTables, seq, now, reg, ct, call, resp, registered>>

----------------------------------------------------------------------------
(* Bounds and input domains *)

MaxUserSeq == 3
MaxThesisSeq == 2
MaxProfileSeq == 2
MaxSessionSeq == 3
MaxSubmissionSeq == 2
MaxCommentSeq == 2
FirstInstant == 998
LastInstant == 1001

Usernames == {"u1", "u2"}
Emails == {"e1", "e2"}
Passwords == {"p1", "p2"}
Salts == {"s1", "s2"}
Nonces == {"n1", "n2"}
Roles == {"STUDENT", "LECTURER", "ADMIN"}
ThesisStatuses == {"PROPOSAL", "IN_PROGRESS", "REVISION", "COMPLETED"}

Null == "null"
Undefined == "undefined"

----------------------------------------------------------------------------
(* Strings and buffers of the credential codec.                            *)
(* A buffer is its length and the bytes' origin; a string field is either  *)
(* plain text or the hex encoding of a buffer; a credential string is the  *)
(* sequence of its ':'-separated fields, which is what split(':') yields.  *)

EmptyBuf == [len |-> 0, key |-> <<"", "">>]
Str(t) == [kind |-> "text", text |-> t, buf |-> EmptyBuf]
HexEncode(b) == [kind |-> "hex", text |-> "", buf |-> b]
EmptyString == <<Str("")>>

KeyLen == 64

\* scryptSync(password, salt, keylen): keylen bytes determined by (password, salt)
scryptSync(password, salt, keylen) == [len |-> keylen, key |-> <<password, salt>>]

\* Buffer.from(s, 'hex'): decoding stops at the first character that is not hex
BufferFromHex(s) == IF s.kind = "hex" THEN s.buf ELSE EmptyBuf

\* a credential that embeds another salt than the one the key was derived with
hashPassword_OtherSalt(password, salt) ==
    <<Str("s1"), HexEncode(scryptSync(password, salt, KeyLen))>>

hashPassword(password, salt) ==
    <<Str(salt), HexEncode(scryptSync(password, salt, KeyLen))>>

\* The outcome of a call that may throw: threw = "" when it returned value
Returned(v) == [threw |-> "", value |-> v]
Threw(e) == [threw |-> e, value |-> FALSE]

\* timingSafeEqual throws a RangeError on buffers of different byte lengths
timingSafeEqual(a, b) ==
    IF a.len # b.len THEN Threw("RangeError") ELSE Returned(a = b)

\* const [salt, hash] = hashedPassword.split(':'): hash is undefined when the
\* string holds no ':', and Buffer.from(undefined, 'hex') throws a TypeError
verifyPassword(password, hashedPassword) ==
    IF Len(hashedPassword) < 2
    THEN Threw("TypeError")
    ELSE timingSafeEqual(BufferFromHex(hashedPassword[2]),
                         scryptSync(password, hashedPassword[1].text, KeyLen))

----------------------------------------------------------------------------
(* Tokens.  A token is the sequence of its three '.'-separated fields.      *)

JWT_SECRET == "your-secret-key-for-thesis-management"
MsPerSecond == 1000
SecondsPerDay == 24 * 60 * 60

Base64Url(json) == [b64 |-> json]
Base64UrlDecode(field) == field.b64
Hmac(secret, message) == [hmac |-> secret, over |-> message]

\* a payload whose issued-at is cut to whole seconds, as its expiry is
TokenPayload_IatSeconds(userId, t1, t2, jti) ==
    [userId |-> userId,
     exp |-> (t1 \div MsPerSecond) + SecondsPerDay,
     iat |-> t2 \div MsPerSecond,
     jti |-> jti]

\* t1 and t2 are the two successive readings of Date.now() (lines 34 and 35)
TokenPayload(userId, t1, t2, jti) ==
    [userId |-> userId,
     exp |-> (t1 \div MsPerSecond) + SecondsPerDay,
     iat |-> t2,
     jti |-> jti]

generateToken(userId, t1, t2, jti) ==
    LET encodedHeader == Base64Url([alg |-> "HS256", typ |-> "JWT"])
        encodedPayload == Base64Url(TokenPayload(userId, t1, t2, jti))
    IN  <<encodedHeader, encodedPayload,
          Hmac(JWT_SECRET, <<encodedHeader, encodedPayload>>)>>

----------------------------------------------------------------------------
(* The store *)

TableNames == {"users", "students", "lecturers", "theses", "thesis_lecturers",
               "guidance_sessions", "submissions", "comments"}

UserRow(id, input, hashedPassword) ==
    [id |-> id, username |-> input.username, email |-> input.email,
     password_hash |-> hashedPassword, role |-> input.role]

\* a users table without its unique columns
UsersUniqueOk_Absent(row) == TRUE

\* usersTable: username and email are unique columns
UsersUniqueOk(row) ==
    \A u \in users : u.username # row.username /\ u.email # row.email

\* a completed call: its request, and the value it returned or the error it threw
\* (requests and values are records, so that any two outcomes can be compared)
NoValue == [none |-> TRUE]
IdleCall == [op |-> "none", pc |-> "idle", input |-> NoValue]
NoResp == [op |-> "none", req |-> NoValue, ok |-> TRUE, error |-> "", value |-> NoValue]
Ok(op, req, v) == [op |-> op, req |-> req, ok |-> TRUE, error |-> "", value |-> v]
Err(op, req, e) == [op |-> op, req |-> req, ok |-> FALSE, error |-> e, value |-> NoValue]

----------------------------------------------------------------------------
(* registerUser: select by username, select by email, insert *)

RegInputs == [username : Usernames, email : Emails, password : Passwords, role : Roles]
NoInput == [username |-> "", email |-> "", password |-> "", role |-> ""]
IdleFrame == [pc |-> "idle", input |-> NoInput]

\* the representation returned to the caller: the row with its credential scrubbed
\* the stored row returned as it is
ScrubbedUser_Identity(user) == user

ScrubbedUser(user) == [user EXCEPT !.password_hash = EmptyString]

\* registerUser without its username check
RegCheckUsername_NoCheck(p, input) ==
    /\ reg[p].pc = "idle"
    /\ reg' = [reg EXCEPT ![p] = [pc |-> "checkEmail", input |-> input]]
    /\ UNCHANGED <<users, thesisTables, sessionTables, call, seq, now, ct, resp, registered>>

RegCheckUsername(p, input) ==
    /\ reg[p].pc = "idle"
    /\ IF \E u \in users : u.username = input.username
       THEN /\ resp' = Err("registerUser", input, "Username already exists")
            /\ reg' = reg
       ELSE /\ reg' = [reg EXCEPT ![p] = [pc |-> "checkEmail", input |-> input]]
            /\ resp' = resp
    /\ UNCHANGED <<users, thesisTables, sessionTables, call, seq, now, ct, registered>>

RegCheckEmail(p) ==
    /\ reg[p].pc = "checkEmail"
    /\ IF \E u \in users : u.email = reg[p].input.email
       THEN /\ resp' = Err("registerUser", reg[p].input, "Email already exists")
            /\ reg' = [reg EXCEPT ![p] = IdleFrame]
       ELSE /\ reg' = [reg EXCEPT ![p].pc = "insert"]
            /\ resp' = resp
    /\ UNCHANGED <<users, thesisTables, sessionTables, call, seq, now, ct, registered>>

\* the insert statement: the serial is consumed, then the unique columns decide
RegInsert(p, salt) ==
    /\ reg[p].pc = "insert"
    /\ seq.users < MaxUserSeq
    /\ LET row == UserRow(seq.users + 1, reg[p].input,
                          hashPassword(reg[p].input.password, salt))
       IN  /\ seq' = [seq EXCEPT !.users = @ + 1]
           /\ IF UsersUniqueOk(row)
              THEN /\ users' = users \cup {row}
                   /\ resp' = Ok("registerUser", reg[p].input, ScrubbedUser(row))
                   /\ registered' = registered \cup
                          {[id |-> row.id, username |-> row.username,
                            password |-> reg[p].input.password]}
              ELSE /\ users' = users
                   /\ resp' = Err("registerUser", reg[p].input, "unique_violation")
                   /\ registered' = registered
    /\ reg' = [reg EXCEPT ![p] = IdleFrame]
    /\ UNCHANGED <<thesisTables, sessionTables, call, now, ct>>

----------------------------------------------------------------------------
(* loginUser: one select, then verifyPassword and generateToken *)

LoginInputs == [username : Usernames, password : Passwords]

\* loginUser telling an unknown user from a wrong password
LoginResult_UserNotFound(input, jti, t1, t2) ==
    LET found == {u \in users : u.username = input.username}
    IN  IF found = {}
        THEN Err("loginUser", input, "User not found")
        ELSE LET user == CHOOSE u \in found : TRUE
                 v == verifyPassword(input.password, user.password_hash)
             IN  IF v.threw = "" /\ v.value
                 THEN Ok("loginUser", input,
                         [user |-> ScrubbedUser(user),
                          token |-> generateToken(user.id, t1, t2, jti)])
                 ELSE Err("loginUser", input, "Invalid credentials")

\* what loginUser returns or throws on the current store; t1 and t2 are
\* generateToken's two clock readings
LoginResult(input, jti, t1, t2) ==
    LET found == {u \in users : u.username = input.username}
    IN  IF found = {}
        THEN Err("loginUser", input, "Invalid credentials")
        ELSE LET user == CHOOSE u \in found : TRUE
                 v == verifyPassword(input.password, user.password_hash)
             IN  IF v.threw # ""
                 THEN Err("loginUser", input, v.threw)
                 ELSE IF ~v.value
                 THEN Err("loginUser", input, "Invalid credentials")
                 ELSE Ok("loginUser", input,
                         [user |-> ScrubbedUser(user),
                          token |-> generateToken(user.id, t1, t2, jti)])

\* drift: the milliseconds that pass between generateToken's two clock readings
LoginUser(input, jti, drift) ==
    /\ now + drift <= LastInstant
    /\ now' = now + drift
    /\ resp' = LoginResult(input, jti, now, now + drift)
    /\ UNCHANGED <<users, thesisTables, sessionTables, call, seq, reg, ct, registered>>

Tick ==
    /\ now < LastInstant
    /\ now' = now + 1
    /\ UNCHANGED <<users, thesisTables, sessionTables, call, seq, reg, ct, resp, registered>>

----------------------------------------------------------------------------
(* Deletion with the cascade of the onDelete: 'cascade' references *)

\* a nullable integer column holding NULL
NullId == -1

StudentsOfUsers(us) == {s \in students : s.user_id \in us}
LecturersOfUsers(us) == {l \in lecturers : l.user_id \in us}
ThesesOfStudents(ss) == {t \in theses : t.student_id \in ss}
LinksOf(ts, ls) ==
    {tl \in thesisLecturers : tl.thesis_id \in ts \/ tl.lecturer_id \in ls}
\* guidance sessions that outlive their thesis
SessionsOfTheses_None(ts) == {}

SessionsOfTheses(ts) == {g \in guidanceSessions : g.thesis_id \in ts}
SubmissionsOfSessions(gs) == {s \in submissions : s.guidance_session_id \in gs}
\* a cascade that takes every comment of a deleted submission's session
CommentsOf_WholeSession(gs, subs) ==
    {c \in comments :
        \/ c.guidance_session_id \in gs
        \/ \E x \in submissions :
              x.id \in subs /\ x.guidance_session_id = c.guidance_session_id}

CommentsOf(gs, subs) ==
    {c \in comments : c.guidance_session_id \in gs \/ c.submission_id \in subs}

Ids(rows) == {r.id : r \in rows}

\* the ids of the rows, per table, that a delete of the given rows removes:
\* the rows themselves and every row that references a removed row through
\* an onDelete: 'cascade' reference
Cascade(userIds, studentIds, lecturerIds, thesisIds, submissionIds, commentIds) ==
    LET ss == studentIds \cup Ids(StudentsOfUsers(userIds))
        ls == lecturerIds \cup Ids(LecturersOfUsers(userIds))
        ts == thesisIds \cup Ids(ThesesOfStudents(ss))
        gs == Ids(SessionsOfTheses(ts))
        subs == submissionIds \cup Ids(SubmissionsOfSessions(gs))
    IN  [users |-> userIds, students |-> ss, lecturers |-> ls, theses |-> ts,
         links |-> Ids(LinksOf(ts, ls)), sessions |-> gs, submissions |-> subs,
         comments |-> commentIds \cup Ids(CommentsOf(gs, subs))]

\* references to users that never refuse a delete
Restricted_Never(d) == FALSE

\* submissions.uploaded_by, comments.sender_id and comments.receiver_id
\* reference users with no onDelete action: the statement is refused when a
\* row that the cascade leaves references a user it deletes
Restricted(d) ==
    \/ \E s \in submissions : s.id \notin d.submissions /\ s.uploaded_by \in d.users
    \/ \E c \in comments :
          /\ c.id \notin d.comments
          /\ (c.sender_id \in d.users \/ c.receiver_id \in d.users)

\* the delete statement: refused as a whole, or applied with its cascade
CascadeDelete(userIds, studentIds, lecturerIds, thesisIds, submissionIds, commentIds) ==
    LET d == Cascade(userIds, studentIds, lecturerIds, thesisIds,
                     submissionIds, commentIds)
    IN  IF Restricted(d)
        THEN UNCHANGED <<users, thesisTables, sessionTables, registered>>
        ELSE /\ users' = {u \in users : u.id \notin d.users}
             /\ students' = {s \in students : s.id \notin d.students}
             /\ lecturers' = {l \in lecturers : l.id \notin d.lecturers}
             /\ theses' = {t \in theses : t.id \notin d.theses}
             /\ thesisLecturers' = {tl \in thesisLecturers : tl.id \notin d.links}
             /\ guidanceSessions' = {g \in guidanceSessions : g.id \notin d.sessions}
             /\ submissions' = {x \in submissions : x.id \notin d.submissions}
             /\ comments' = {c \in comments : c.id \notin d.comments}
             /\ registered' = {r \in registered : r.id \notin d.users}

DeleteUser(id) ==
    /\ \E u \in users : u.id = id
    /\ CascadeDelete({id}, {}, {}, {}, {}, {})
    /\ UNCHANGED <<seq, now, reg, ct, call, resp>>

DeleteStudent(id) ==
    /\ \E s \in students : s.id = id
    /\ CascadeDelete({}, {id}, {}, {}, {}, {})
    /\ UNCHANGED <<seq, now, reg, ct, call, resp>>

DeleteLecturer(id) ==
    /\ \E l \in lecturers : l.id = id
    /\ CascadeDelete({}, {}, {id}, {}, {}, {})
    /\ UNCHANGED <<seq, now, reg, ct, call, resp>>

----------------------------------------------------------------------------
(* createThesis: insert the thesis, then insert its thesis_lecturers rows *)

NoThesis == [id |-> 0, student_id |-> 0, title |-> "", description |-> Null,
             status |-> "", created_at |-> 0, updated_at |-> 0]
NoThesisInput == [student_id |-> 0, title |-> "", description |-> Null,
                  status |-> Undefined, lecturer_ids |-> <<>>]
IdleThesisFrame == [pc |-> "idle", input |-> NoThesisInput, newThesis |-> NoThesis]

\* status: input.status || 'PROPOSAL'
ThesisRow(id, input) ==
    [id |-> id, student_id |-> input.student_id, title |-> input.title,
     description |-> input.description,
     status |-> IF input.status = Undefined THEN "PROPOSAL" ELSE input.status,
     created_at |-> now, updated_at |-> now]

\* every entry marked primary
ThesisLecturerEntries_AllPrimary(thesisId, lecturerIds, firstId) ==
    {[id |-> firstId + index - 1,
      thesis_id |-> thesisId,
      lecturer_id |-> lecturerIds[index],
      is_primary |-> TRUE] : index \in 1..Len(lecturerIds)}

\* input.lecturer_ids.map((lecturerId, index) => ...), with the serial ids the
\* insert gives the entries, in order
ThesisLecturerEntries(thesisId, lecturerIds, firstId) ==
    {[id |-> firstId + index - 1,
      thesis_id |-> thesisId,
      lecturer_id |-> lecturerIds[index],
      is_primary |-> (index = 1)] : index \in 1..Len(lecturerIds)}

\* the foreign keys of thesis_lecturers, checked for the whole statement
LinksForeignKeysOk(entries) ==
    \A e \in entries :
        /\ \E t \in theses : t.id = e.thesis_id
        /\ \E l \in lecturers : l.id = e.lecturer_id

CtInsertThesis(input) ==
    /\ ct.pc = "idle"
    /\ seq.theses < MaxThesisSeq
    /\ seq' = [seq EXCEPT !.theses = @ + 1]
    /\ IF \E s \in students : s.id = input.student_id
       THEN LET row == ThesisRow(seq.theses + 1, input)
            IN  /\ theses' = theses \cup {row}
                /\ ct' = [pc |-> "insertLecturers", input |-> input, newThesis |-> row]
                /\ resp' = resp
       ELSE /\ theses' = theses
            /\ ct' = ct
            /\ resp' = Err("createThesis", input, "foreign_key_violation")
    /\ UNCHANGED <<users, students, lecturers, thesisLecturers, sessionTables, call,
                   now, reg, registered>>

CtInsertLecturers ==
    /\ ct.pc = "insertLecturers"
    /\ LET n == Len(ct.input.lecturer_ids)
           entries == ThesisLecturerEntries(ct.newThesis.id, ct.input.lecturer_ids,
                                            seq.thesis_lecturers + 1)
       IN  IF n = 0
           THEN \* values([]) throws before any statement is sent
                /\ resp' = Err("createThesis", ct.input,
                               "values() must be called with at least one value")
                /\ UNCHANGED <<thesisLecturers, seq>>
           ELSE /\ seq' = [seq EXCEPT !.thesis_lecturers = @ + n]
                /\ IF LinksForeignKeysOk(entries)
                   THEN /\ thesisLecturers' = thesisLecturers \cup entries
                        /\ resp' = Ok("createThesis", ct.input, ct.newThesis)
                   ELSE /\ thesisLecturers' = thesisLecturers
                        /\ resp' = Err("createThesis", ct.input, "foreign_key_violation")
    /\ ct' = IdleThesisFrame
    /\ UNCHANGED <<users, students, lecturers, theses, sessionTables, call,
                   now, reg, registered>>

\* deleteThesis: the delete statement with its cascade; true when a row was deleted
DeleteThesis(id) ==
    /\ CascadeDelete({}, {}, {}, {id}, {}, {})
    /\ resp' = Ok("deleteThesis", [id |-> id], [deleted |-> \E t \in theses : t.id = id])
    /\ UNCHANGED <<seq, now, reg, ct, call>>

----------------------------------------------------------------------------
(* createStudent and createLecturer: select the user, then insert *)

StudentRow(id, input) ==
    [id |-> id, user_id |-> input.user_id, student_id |-> input.student_id]
LecturerRow(id, input) ==
    [id |-> id, user_id |-> input.user_id, lecturer_id |-> input.lecturer_id]

\* studentsTable.student_id and lecturersTable.lecturer_id are unique columns
StudentsUniqueOk(row) == \A s \in students : s.student_id # row.student_id
LecturersUniqueOk(row) == \A l \in lecturers : l.lecturer_id # row.lecturer_id

\* the user_id reference of both tables
UserExists(id) == \E u \in users : u.id = id

\* the outcome of the checks on the selected user: "" when they pass
ProfileUserCheck_NoRoleCheck(input, role) ==
    IF ~UserExists(input.user_id) THEN "User not found" ELSE ""

\* a role check that lets an ADMIN user pass
ProfileUserCheck_AdminPasses(input, role) ==
    LET user == {u \in users : u.id = input.user_id}
    IN  IF user = {} THEN "User not found"
        ELSE IF (CHOOSE u \in user : TRUE).role \notin {role, "ADMIN"}
        THEN "User must have " \o role \o " role"
        ELSE ""

ProfileUserCheck(input, role) ==
    LET user == {u \in users : u.id = input.user_id}
    IN  IF user = {} THEN "User not found"
        ELSE IF (CHOOSE u \in user : TRUE).role # role
        THEN "User must have " \o role \o " role"
        ELSE ""

CsSelectUser(input) ==
    /\ call.pc = "idle"
    /\ LET error == ProfileUserCheck(input, "STUDENT")
       IN  IF error # ""
           THEN /\ resp' = Err("createStudent", input, error)
                /\ call' = call
           ELSE /\ call' = [op |-> "createStudent", pc |-> "insert", input |-> input]
                /\ resp' = resp
    /\ UNCHANGED <<users, thesisTables, sessionTables, seq, now, reg, ct, registered>>

\* the insert statement: the serial is consumed, the unique column is checked
\* as the row is written and the reference to users after it
CsInsertStudent ==
    /\ call.op = "createStudent" /\ call.pc = "insert"
    /\ seq.students < MaxProfileSeq
    /\ seq' = [seq EXCEPT !.students = @ + 1]
    /\ LET row == StudentRow(seq.students + 1, call.input)
       IN  IF ~StudentsUniqueOk(row)
           THEN /\ students' = students
                /\ resp' = Err("createStudent", call.input, "unique_violation")
           ELSE IF ~UserExists(row.user_id)
           THEN /\ students' = students
                /\ resp' = Err("createStudent", call.input, "foreign_key_violation")
           ELSE /\ students' = students \cup {row}
                /\ resp' = Ok("createStudent", call.input, row)
    /\ call' = IdleCall
    /\ UNCHANGED <<users, lecturers, theses, thesisLecturers, sessionTables,
                   now, reg, ct, registered>>

ClSelectUser(input) ==
    /\ call.pc = "idle"
    /\ LET error == ProfileUserCheck(input, "LECTURER")
       IN  IF error # ""
           THEN /\ resp' = Err("createLecturer", input, error)
                /\ call' = call
           ELSE /\ call' = [op |-> "createLecturer", pc |-> "insert", input |-> input]
                /\ resp' = resp
    /\ UNCHANGED <<users, thesisTables, sessionTables, seq, now, reg, ct, registered>>

ClInsertLecturer ==
    /\ call.op = "createLecturer" /\ call.pc = "insert"
    /\ seq.lecturers < MaxProfileSeq
    /\ seq' = [seq EXCEPT !.lecturers = @ + 1]
    /\ LET row == LecturerRow(seq.lecturers + 1, call.input)
       IN  IF ~LecturersUniqueOk(row)
           THEN /\ lecturers' = lecturers
                /\ resp' = Err("createLecturer", call.input, "unique_violation")
           ELSE IF ~UserExists(row.user_id)
           THEN /\ lecturers' = lecturers
                /\ resp' = Err("createLecturer", call.input, "foreign_key_violation")
           ELSE /\ lecturers' = lecturers \cup {row}
                /\ resp' = Ok("createLecturer", call.input, row)
    /\ call' = IdleCall
    /\ UNCHANGED <<users, students, theses, thesisLecturers, sessionTables,
                   now, reg, ct, registered>>

----------------------------------------------------------------------------
(* createGuidanceSession: select the thesis, then insert *)

\* an optional date that was not supplied
NoDate == -1

ThesisExists(id) == \E t \in theses : t.id = id
SessionExists(id) == \E g \in guidanceSessions : g.id = id
\* a submissions table in which every id is found
SubmissionExists_Always(id) == TRUE

SubmissionExists(id) == \E x \in submissions : x.id = id

\* a session row whose session_date is always the column default
SessionRow_AlwaysNow(id, input) ==
    [id |-> id, thesis_id |-> input.thesis_id, session_date |-> now,
     notes |-> input.notes, created_at |-> now, updated_at |-> now]

\* session_date: input.session_date || new Date()
SessionRow(id, input) ==
    [id |-> id, thesis_id |-> input.thesis_id,
     session_date |-> IF input.session_date = NoDate THEN now ELSE input.session_date,
     notes |-> input.notes, created_at |-> now, updated_at |-> now]

CgsSelectThesis(input) ==
    /\ call.pc = "idle"
    /\ IF ~ThesisExists(input.thesis_id)
       THEN /\ resp' = Err("createGuidanceSession", input,
                           "Thesis with ID " \o ToString(input.thesis_id) \o " does not exist")
            /\ call' = call
       ELSE /\ call' = [op |-> "createGuidanceSession", pc |-> "insert", input |-> input]
            /\ resp' = resp
    /\ UNCHANGED <<users, thesisTables, sessionTables, seq, now, reg, ct, registered>>

CgsInsertSession ==
    /\ call.op = "createGuidanceSession" /\ call.pc = "insert"
    /\ seq.guidance_sessions < MaxSessionSeq
    /\ seq' = [seq EXCEPT !.guidance_sessions = @ + 1]
    /\ LET row == SessionRow(seq.guidance_sessions + 1, call.input)
       IN  IF ThesisExists(row.thesis_id)
           THEN /\ guidanceSessions' = guidanceSessions \cup {row}
                /\ resp' = Ok("createGuidanceSession", call.input, row)
           ELSE /\ guidanceSessions' = guidanceSessions
                /\ resp' = Err("createGuidanceSession", call.input, "foreign_key_violation")
    /\ call' = IdleCall
    /\ UNCHANGED <<users, thesisTables, submissions, comments, now, reg, ct, registered>>

----------------------------------------------------------------------------
(* updateGuidanceSession: getGuidanceSessionById, then update *)

\* what result[0] is when the update matched no row
UndefinedValue == [undefined |-> TRUE]

\* updateGuidanceSession without its lookup
UgsSelectSession_NoCheck(id, notes) ==
    /\ call.pc = "idle"
    /\ call' = [op |-> "updateGuidanceSession", pc |-> "update",
                input |-> [id |-> id, notes |-> notes]]
    /\ UNCHANGED <<users, thesisTables, sessionTables, seq, now, reg, ct, resp, registered>>

UgsSelectSession(id, notes) ==
    /\ call.pc = "idle"
    /\ IF ~SessionExists(id)
       THEN /\ resp' = Err("updateGuidanceSession", [id |-> id, notes |-> notes],
                           "Guidance session with ID " \o ToString(id) \o " does not exist")
            /\ call' = call
       ELSE /\ call' = [op |-> "updateGuidanceSession", pc |-> "update",
                        input |-> [id |-> id, notes |-> notes]]
            /\ resp' = resp
    /\ UNCHANGED <<users, thesisTables, sessionTables, seq, now, reg, ct, registered>>

UgsUpdate ==
    /\ call.op = "updateGuidanceSession" /\ call.pc = "update"
    /\ LET found == {g \in guidanceSessions : g.id = call.input.id}
           updated == {[g EXCEPT !.notes = call.input.notes, !.updated_at = now] : g \in found}
       IN  /\ guidanceSessions' = (guidanceSessions \ found) \cup updated
           /\ resp' = Ok("updateGuidanceSession", call.input,
                         IF updated = {} THEN UndefinedValue ELSE CHOOSE g \in updated : TRUE)
    /\ call' = IdleCall
    /\ UNCHANGED <<users, thesisTables, submissions, comments, seq, now, reg, ct, registered>>

----------------------------------------------------------------------------
(* createSubmission and deleteSubmission: one statement each *)

SubmissionRow(id, input) ==
    [id |-> id, guidance_session_id |-> input.guidance_session_id,
     file_name |-> input.file_name, uploaded_by |-> input.uploaded_by,
     created_at |-> now]

\* submissionsTable with no reference from uploaded_by
SubmissionForeignKeysOk_SessionOnly(row) == SessionExists(row.guidance_session_id)

\* the references of submissionsTable
SubmissionForeignKeysOk(row) ==
    /\ SessionExists(row.guidance_session_id)
    /\ UserExists(row.uploaded_by)

CreateSubmission(input) ==
    /\ seq.submissions < MaxSubmissionSeq
    /\ seq' = [seq EXCEPT !.submissions = @ + 1]
    /\ LET row == SubmissionRow(seq.submissions + 1, input)
       IN  IF SubmissionForeignKeysOk(row)
           THEN /\ submissions' = submissions \cup {row}
                /\ resp' = Ok("createSubmission", input, row)
           ELSE /\ submissions' = submissions
                /\ resp' = Err("createSubmission", input, "foreign_key_violation")
    /\ UNCHANGED <<users, thesisTables, guidanceSessions, comments, now, reg, ct, call,
                   registered>>

\* result.length > 0 of the rows the delete statement returned
DeleteSubmission(id) ==
    /\ CascadeDelete({}, {}, {}, {}, {id}, {})
    /\ resp' = Ok("deleteSubmission", [id |-> id], [deleted |-> SubmissionExists(id)])
    /\ UNCHANGED <<seq, now, reg, ct, call>>

----------------------------------------------------------------------------
(* createComment: select the session, select the submission when one is     *)
(* given, then insert; deleteComment: one statement                         *)

CommentTypes == {"GENERAL", "FILE_COMMENT"}

CommentRow(id, input) ==
    [id |-> id, guidance_session_id |-> input.guidance_session_id,
     submission_id |-> input.submission_id, sender_id |-> input.sender_id,
     receiver_id |-> input.receiver_id, content |-> input.content,
     comment_type |-> input.comment_type, created_at |-> now]

\* the references of commentsTable; a NULL column references nothing
CommentForeignKeysOk(row) ==
    /\ SessionExists(row.guidance_session_id)
    /\ row.submission_id = NullId \/ SubmissionExists(row.submission_id)
    /\ UserExists(row.sender_id)
    /\ row.receiver_id = NullId \/ UserExists(row.receiver_id)

\* if (input.submission_id): null and 0 are falsy
SubmissionGiven(input) == input.submission_id \notin {NullId, 0}

CcSelectSession(input) ==
    /\ call.pc = "idle"
    /\ IF ~SessionExists(input.guidance_session_id)
       THEN /\ resp' = Err("createComment", input, "Guidance session not found")
            /\ call' = call
       ELSE /\ call' = [op |-> "createComment",
                        pc |-> IF SubmissionGiven(input) THEN "selectSubmission" ELSE "insert",
                        input |-> input]
            /\ resp' = resp
    /\ UNCHANGED <<users, thesisTables, sessionTables, seq, now, reg, ct, registered>>

CcSelectSubmission ==
    /\ call.op = "createComment" /\ call.pc = "selectSubmission"
    /\ IF ~SubmissionExists(call.input.submission_id)
       THEN /\ resp' = Err("createComment", call.input, "Submission not found")
            /\ call' = IdleCall
       ELSE /\ call' = [call EXCEPT !.pc = "insert"]
            /\ resp' = resp
    /\ UNCHANGED <<users, thesisTables, sessionTables, seq, now, reg, ct, registered>>

CcInsertComment ==
    /\ call.op = "createComment" /\ call.pc = "insert"
    /\ seq.comments < MaxCommentSeq
    /\ seq' = [seq EXCEPT !.comments = @ + 1]
    /\ LET row == CommentRow(seq.comments + 1, call.input)
       IN  IF CommentForeignKeysOk(row)
           THEN /\ comments' = comments \cup {row}
                /\ resp' = Ok("createComment", call.input, row)
           ELSE /\ comments' = comments
                /\ resp' = Err("createComment", call.input, "foreign_key_violation")
    /\ call' = IdleCall
    /\ UNCHANGED <<users, thesisTables, guidanceSessions, submissions, now, reg, ct,
                   registered>>

DeleteComment(id) ==
    /\ CascadeDelete({}, {}, {}, {}, {}, {id})
    /\ resp' = Ok("deleteComment", [id |-> id], [deleted |-> \E c \in comments : c.id = id])
    /\ UNCHANGED <<seq, now, reg, ct, call>>

----------------------------------------------------------------------------
(* updateThesis: one update statement *)

\* an update that writes every field of its input, supplied or not
UpdatedThesis_AllFields(t, input) ==
    [t EXCEPT !.title = input.title, !.description = input.description,
              !.status = input.status, !.updated_at = now]

\* updateData: updated_at, and each field that is not undefined
UpdatedThesis(t, input) ==
    [t EXCEPT !.title = IF input.title # Undefined THEN input.title ELSE @,
              !.description = IF input.description # Undefined THEN input.description ELSE @,
              !.status = IF input.status # Undefined THEN input.status ELSE @,
              !.updated_at = now]

UpdateThesis(input) ==
    /\ LET found == {t \in theses : t.id = input.id}
           updated == {UpdatedThesis(t, input) : t \in found}
       IN  /\ theses' = (theses \ found) \cup updated
           /\ resp' = IF updated = {}
                      THEN Err("updateThesis", input,
                               "Thesis with id " \o ToString(input.id) \o " not found")
                      ELSE Ok("updateThesis", input, CHOOSE t \in updated : TRUE)
    /\ UNCHANGED <<users, students, lecturers, thesisLecturers, sessionTables, seq, now,
                   reg, ct, call, registered>>

----------------------------------------------------------------------------
(* Query handlers: one select statement each *)

\* what a get-by-id handler returns for no row
NullValue == [null |-> TRUE]

\* a select without its where clause
RowsWhere_All(table, column, value) == table

\* select().from(table).where(eq(column, value))
RowsWhere(table, column, value) == {r \in table : r[column] = value}

\* the orders in which a select with no orderBy can return its rows
Orderings(rows) ==
    {r \in [1..Cardinality(rows) -> rows] :
        \A i, j \in 1..Cardinality(rows) : r[i] = r[j] => i = j}

\* an orderBy that accepts every order
NewestFirst_AnyOrder(r) == TRUE

\* orderBy(desc(session_date))
NewestFirst(r) == \A i \in 1..(Len(r) - 1) : r[i].session_date >= r[i + 1].session_date

\* result.length > 0 ? result[0] : null
FirstOrNull(rows) == IF rows = {} THEN {NullValue} ELSE rows

\* the handler resolves with one of the results the statement can produce
Resolve(op, req, values) ==
    /\ \E v \in values : resp' = Ok(op, req, v)
    /\ UNCHANGED <<users, thesisTables, sessionTables, seq, now, reg, ct, call, registered>>

ListOf(results) == {[rows |-> r] : r \in results}

GetThesesByStudent(input) ==
    Resolve("getThesesByStudent", input,
            ListOf(Orderings(RowsWhere(theses, "student_id", input.student_id))))

\* inner join of theses with thesis_lecturers on thesis_id, one result row
\* for each thesis_lecturers row of the lecturer
GetThesesByLecturer(input) ==
    LET joined == {p \in theses \X RowsWhere(thesisLecturers, "lecturer_id", input.lecturer_id) :
                      p[1].id = p[2].thesis_id}
    IN  Resolve("getThesesByLecturer", input,
                ListOf({[i \in 1..Cardinality(joined) |-> o[i][1]] : o \in Orderings(joined)}))

GetThesisById(id) ==
    Resolve("getThesisById", [id |-> id], FirstOrNull(RowsWhere(theses, "id", id)))

GetStudentById(id) ==
    Resolve("getStudentById", [id |-> id], FirstOrNull(RowsWhere(students, "id", id)))

GetLecturerById(id) ==
    Resolve("getLecturerById", [id |-> id], FirstOrNull(RowsWhere(lecturers, "id", id)))

GetGuidanceSessionsByThesis(input) ==
    Resolve("getGuidanceSessionsByThesis", input,
            ListOf({r \in Orderings(RowsWhere(guidanceSessions, "thesis_id", input.thesis_id)) :
                       NewestFirst(r)}))

GetGuidanceSessionById(id) ==
    Resolve("getGuidanceSessionById", [id |-> id],
            FirstOrNull(RowsWhere(guidanceSessions, "id", id)))

GetSubmissionsBySession(sessionId) ==
    Resolve("getSubmissionsBySession", [sessionId |-> sessionId],
            ListOf(Orderings(RowsWhere(submissions, "guidance_session_id", sessionId))))

GetSubmissionById(id) ==
    Resolve("getSubmissionById", [id |-> id], FirstOrNull(RowsWhere(submissions, "id", id)))

GetCommentsBySession(input) ==
    Resolve("getCommentsBySession", input,
            ListOf(Orderings(RowsWhere(comments, "guidance_session_id",
                                       input.guidance_session_id))))

GetCommentsBySubmission(submissionId) ==
    Resolve("getCommentsBySubmission", [submissionId |-> submissionId],
            ListOf(Orderings(RowsWhere(comments, "submission_id", submissionId))))

----------------------------------------------------------------------------
(* Specifications *)

AuthProcs == {"a"}
RaceProcs == {"a", "b"}
AllProcs == AuthProcs \cup RaceProcs

EmptyStore ==
    /\ users = {}
    /\ students = {}
    /\ lecturers = {}
    /\ theses = {}
    /\ thesisLecturers = {}
    /\ guidanceSessions = {}
    /\ submissions = {}
    /\ comments = {}
    /\ seq = [t \in TableNames |-> 0]
    /\ registered = {}

IdleCalls ==
    /\ now = FirstInstant
    /\ reg = [p \in AllProcs |-> IdleFrame]
    /\ ct = IdleThesisFrame
    /\ call = IdleCall
    /\ resp = NoResp

Init == EmptyStore /\ IdleCalls

NextAuth ==
    \/ \E p \in AuthProcs, input \in RegInputs : RegCheckUsername(p, input)
    \/ \E p \in AuthProcs : RegCheckEmail(p)
    \/ \E p \in AuthProcs, salt \in Salts : RegInsert(p, salt)
    \/ \E input \in LoginInputs, jti \in Nonces : LoginUser(input, jti, 0)
    \/ \E id \in 1..MaxUserSeq : DeleteUser(id)

Spec == Init /\ [][NextAuth]_vars

\* a store holding one user that registerUser wrote
RegisteredStore(input, salt) ==
    /\ users = {UserRow(1, input, hashPassword(input.password, salt))}
    /\ registered = {[id |-> 1, username |-> input.username, password |-> input.password]}
    /\ students = {}
    /\ lecturers = {}
    /\ theses = {}
    /\ thesisLecturers = {}
    /\ guidanceSessions = {}
    /\ submissions = {}
    /\ comments = {}
    /\ seq = [t \in TableNames |-> IF t = "users" THEN 1 ELSE 0]

InitToken ==
    /\ \E input \in RegInputs, salt \in Salts : RegisteredStore(input, salt)
    /\ IdleCalls

NextToken ==
    \/ Tick
    \/ \E input \in LoginInputs, jti \in Nonces, drift \in {0, 1} : LoginUser(input, jti, drift)

SpecToken == InitToken /\ [][NextToken]_vars

\* credential strings as a users row can hold them: the ones hashPassword
\* writes, and text that is no 'salt:hash' pair
StoredCredentials ==
    {hashPassword(p, s) : p \in Passwords, s \in Salts}
    \cup {<<Str("hashed_password")>>,
          <<Str("s1"), Str("")>>,
          <<Str("s1"), HexEncode(scryptSync("p1", "s1", KeyLen - 1))>>}

\* a store holding one user row inserted with the given password_hash
InitCodec ==
    /\ \E input \in RegInputs, c \in StoredCredentials : users = {UserRow(1, input, c)}
    /\ registered = {}
    /\ students = {}
    /\ lecturers = {}
    /\ theses = {}
    /\ thesisLecturers = {}
    /\ guidanceSessions = {}
    /\ submissions = {}
    /\ comments = {}
    /\ seq = [t \in TableNames |-> IF t = "users" THEN 1 ELSE 0]
    /\ IdleCalls

NextCodec ==
    \E input \in LoginInputs, jti \in Nonces : LoginUser(input, jti, 0)

SpecCodec == InitCodec /\ [][NextCodec]_vars

\* a store with one student and two lecturers, each with its user
FixtureUser(id, name, email, role) ==
    UserRow(id, [username |-> name, email |-> email, password |-> "p1", role |-> role],
            hashPassword("p1", "s1"))

InitThesis ==
    /\ users = {FixtureUser(1, "u1", "e1", "STUDENT"),
                FixtureUser(2, "u2", "e2", "LECTURER"),
                FixtureUser(3, "u3", "e3", "LECTURER")}
    /\ registered = {[id |-> u.id, username |-> u.username, password |-> "p1"] : u \in users}
    /\ students = {[id |-> 1, user_id |-> 1, student_id |-> "S1"]}
    /\ lecturers = {[id |-> 1, user_id |-> 2, lecturer_id |-> "L1"],
                    [id |-> 2, user_id |-> 3, lecturer_id |-> "L2"]}
    /\ theses = {}
    /\ thesisLecturers = {}
    /\ guidanceSessions = {}
    /\ submissions = {}
    /\ comments = {}
    /\ seq = [t \in TableNames |->
                 CASE t = "users" -> 3
                   [] t = "students" -> 1
                   [] t = "lecturers" -> 2
                   [] OTHER -> 0]
    /\ IdleCalls

\* ids 1 and 2 are stored by the fixture, 9 is stored nowhere
ThesisInputs ==
    [student_id : {1, 9}, title : {"t1"}, description : {Null, "d1"},
     status : {Undefined, "IN_PROGRESS"},
     lecturer_ids : {<<>>, <<1>>, <<2, 1>>, <<1, 1>>, <<1, 9>>}]

NextThesis ==
    \/ \E input \in ThesisInputs : CtInsertThesis(input)
    \/ CtInsertLecturers
    \/ \E id \in 1..MaxThesisSeq : DeleteThesis(id)
    \/ \E id \in 1..3 : DeleteUser(id)
    \/ \E id \in 1..1 : DeleteStudent(id)
    \/ \E id \in 1..2 : DeleteLecturer(id)

SpecThesis == InitThesis /\ [][NextThesis]_vars

RaceInputs == [username : Usernames, email : Emails, password : {"p1"}, role : Roles]

NextRace ==
    \/ \E p \in RaceProcs, input \in RaceInputs : RegCheckUsername(p, input)
    \/ \E p \in RaceProcs : RegCheckEmail(p)
    \/ \E p \in RaceProcs, salt \in Salts : RegInsert(p, salt)

SpecRace == Init /\ [][NextRace]_vars

\* a store with three registered users, one of each role, and no profile
InitProfile ==
    /\ users = {FixtureUser(1, "u1", "e1", "STUDENT"),
                FixtureUser(2, "u2", "e2", "LECTURER"),
                FixtureUser(3, "u3", "e3", "ADMIN")}
    /\ registered = {[id |-> u.id, username |-> u.username, password |-> "p1"] : u \in users}
    /\ students = {}
    /\ lecturers = {}
    /\ theses = {}
    /\ thesisLecturers = {}
    /\ guidanceSessions = {}
    /\ submissions = {}
    /\ comments = {}
    /\ seq = [t \in TableNames |-> IF t = "users" THEN 3 ELSE 0]
    /\ IdleCalls

\* user ids 1 to 3 are stored by the fixture, 9 is stored nowhere
CreateStudentInputs == [user_id : {1, 2, 3, 9}, student_id : {"S1", "S2"}]
CreateLecturerInputs == [user_id : {1, 2, 3, 9}, lecturer_id : {"L1", "L2"}]

NextProfile ==
    \/ \E input \in CreateStudentInputs : CsSelectUser(input)
    \/ CsInsertStudent
    \/ \E input \in CreateLecturerInputs : ClSelectUser(input)
    \/ ClInsertLecturer
    \/ \E id \in 1..3 : DeleteUser(id)

SpecProfile == InitProfile /\ [][NextProfile]_vars

FixtureThesis(id, studentId) ==
    [id |-> id, student_id |-> studentId, title |-> "t1", description |-> Null,
     status |-> "PROPOSAL", created_at |-> FirstInstant, updated_at |-> FirstInstant]

\* a store with two students, each with a thesis supervised by the one lecturer
FixtureTheses ==
    /\ users = {FixtureUser(1, "u1", "e1", "STUDENT"),
                FixtureUser(2, "u2", "e2", "STUDENT"),
                FixtureUser(3, "u3", "e3", "LECTURER")}
    /\ registered = {[id |-> u.id, username |-> u.username, password |-> "p1"] : u \in users}
    /\ students = {[id |-> 1, user_id |-> 1, student_id |-> "S1"],
                   [id |-> 2, user_id |-> 2, student_id |-> "S2"]}
    /\ lecturers = {[id |-> 1, user_id |-> 3, lecturer_id |-> "L1"]}
    /\ theses = {FixtureThesis(1, 1), FixtureThesis(2, 2)}
    /\ thesisLecturers = {[id |-> 1, thesis_id |-> 1, lecturer_id |-> 1, is_primary |-> TRUE],
                          [id |-> 2, thesis_id |-> 2, lecturer_id |-> 1, is_primary |-> TRUE]}

\* the store of FixtureTheses with a session per thesis and, in the session
\* of thesis 1, two submissions and two comments; users 1 and 3 each sent a
\* comment and uploaded a submission
InitDelete ==
    /\ FixtureTheses
    /\ guidanceSessions =
          {[id |-> g, thesis_id |-> g, session_date |-> FirstInstant, notes |-> Null,
            created_at |-> FirstInstant, updated_at |-> FirstInstant] : g \in {1, 2}}
    /\ submissions =
          {[id |-> 1, guidance_session_id |-> 1, file_name |-> "f1", uploaded_by |-> 1,
            created_at |-> FirstInstant],
           [id |-> 2, guidance_session_id |-> 1, file_name |-> "f2", uploaded_by |-> 3,
            created_at |-> FirstInstant]}
    /\ comments =
          {[id |-> 1, guidance_session_id |-> 1, submission_id |-> 1, sender_id |-> 3,
            receiver_id |-> 1, content |-> "c1", comment_type |-> "FILE_COMMENT",
            created_at |-> FirstInstant],
           [id |-> 2, guidance_session_id |-> 1, submission_id |-> NullId, sender_id |-> 1,
            receiver_id |-> NullId, content |-> "c2", comment_type |-> "GENERAL",
            created_at |-> FirstInstant]}
    /\ seq = [t \in TableNames |-> IF t \in {"users"} THEN 3 ELSE IF t = "lecturers" THEN 1 ELSE 2]
    /\ IdleCalls

\* id 9 is stored nowhere
NextDelete ==
    \/ \E id \in {1, 2, 9} : DeleteThesis(id)
    \/ \E id \in {1, 2, 9} : DeleteSubmission(id)
    \/ \E id \in {1, 2, 9} : DeleteComment(id)
    \/ \E id \in 1..3 : DeleteUser(id)
    \/ \E id \in 1..2 : DeleteStudent(id)
    \/ \E id \in 1..1 : DeleteLecturer(id)

SpecDelete == InitDelete /\ [][NextDelete]_vars

\* id 9 is stored nowhere
UpdateThesisInputs ==
    [id : {1, 9}, title : {Undefined, "t2"}, description : {Undefined, Null, "d2"},
     status : {Undefined, "COMPLETED"}]

NextUpdate ==
    \/ \E input \in UpdateThesisInputs : UpdateThesis(input)
    \/ \E id \in {1, 9}, notes \in {"n2"} : UgsSelectSession(id, notes)
    \/ UgsUpdate
    \/ \E id \in 1..1 : DeleteThesis(id)
    \/ Tick

SpecUpdate == InitDelete /\ [][NextUpdate]_vars

\* a store with one student whose thesis the one lecturer supervises
InitSession ==
    /\ users = {FixtureUser(1, "u1", "e1", "STUDENT"),
                FixtureUser(2, "u2", "e2", "LECTURER")}
    /\ registered = {[id |-> u.id, username |-> u.username, password |-> "p1"] : u \in users}
    /\ students = {[id |-> 1, user_id |-> 1, student_id |-> "S1"]}
    /\ lecturers = {[id |-> 1, user_id |-> 2, lecturer_id |-> "L1"]}
    /\ theses = {FixtureThesis(1, 1)}
    /\ thesisLecturers = {[id |-> 1, thesis_id |-> 1, lecturer_id |-> 1, is_primary |-> TRUE]}
    /\ guidanceSessions = {}
    /\ submissions = {}
    /\ comments = {}
    /\ seq = [t \in TableNames |->
                 CASE t = "users" -> 2
                   [] t \in {"students", "lecturers", "theses", "thesis_lecturers"} -> 1
                   [] OTHER -> 0]
    /\ IdleCalls

\* ids 9 are stored nowhere
CreateSessionInputs == [thesis_id : {1, 9}, session_date : {NoDate}, notes : {Null}]
CreateSubmissionInputs ==
    [guidance_session_id : {1, 9}, file_name : {"f1"}, uploaded_by : {2, 9}]

CommentInput(sessionId, submissionId, senderId, receiverId) ==
    [guidance_session_id |-> sessionId, submission_id |-> submissionId,
     sender_id |-> senderId, receiver_id |-> receiverId, content |-> "c1",
     comment_type |-> IF submissionId = NullId THEN "GENERAL" ELSE "FILE_COMMENT"]

\* two comments that can be stored, and one with each reference dangling
CreateCommentInputs ==
    {CommentInput(1, NullId, 1, 2), CommentInput(1, 1, 2, NullId),
     CommentInput(9, NullId, 1, NullId), CommentInput(1, 9, 1, NullId),
     CommentInput(1, NullId, 9, NullId), CommentInput(1, NullId, 1, 9)}

NextSession ==
    \/ \E input \in CreateSessionInputs : CgsSelectThesis(input)
    \/ CgsInsertSession
    \/ \E input \in CreateSubmissionInputs : CreateSubmission(input)
    \/ \E input \in CreateCommentInputs : CcSelectSession(input)
    \/ CcSelectSubmission
    \/ CcInsertComment
    \/ \E id \in 1..1 : DeleteThesis(id)
    \/ \E id \in 1..MaxSubmissionSeq : DeleteSubmission(id)
    \/ \E id \in 1..MaxCommentSeq : DeleteComment(id)
    \/ \E id \in 1..2 : DeleteUser(id)

SpecSession == InitSession /\ [][NextSession]_vars

\* a date before every instant of the clock
EarlyDate == 500

\* thesis 9 and session 9 are stored nowhere
GuidanceSessionInputs ==
    [thesis_id : {1, 9}, session_date : {NoDate, EarlyDate}, notes : {"n1"}]

NextGuidance ==
    \/ \E input \in GuidanceSessionInputs : CgsSelectThesis(input)
    \/ CgsInsertSession
    \/ \E id \in {1, 9}, notes \in {"", "n2"} : UgsSelectSession(id, notes)
    \/ UgsUpdate
    \/ \E id \in 1..1 : DeleteThesis(id)
    \/ Tick

SpecGuidance == InitSession /\ [][NextGuidance]_vars

\* ids 1 and 2 are stored by the fixture, 9 is stored nowhere
QueryIds == {1, 2, 9}

NextQuery ==
    \/ \E id \in QueryIds : GetThesesByStudent([student_id |-> id])
    \/ \E id \in QueryIds : GetThesisById(id)
    \/ \E id \in QueryIds : GetStudentById(id)
    \/ \E id \in QueryIds : GetLecturerById(id)
    \/ \E id \in QueryIds : GetGuidanceSessionById(id)
    \/ \E id \in QueryIds : GetSubmissionsBySession(id)
    \/ \E id \in QueryIds : GetSubmissionById(id)
    \/ \E id \in QueryIds : GetCommentsBySession([guidance_session_id |-> id])
    \/ \E id \in QueryIds : GetCommentsBySubmission(id)
    \/ \E id \in 1..2 : DeleteThesis(id)
    \/ \E id \in 1..2 : DeleteSubmission(id)
    \/ \E id \in 1..2 : DeleteComment(id)

SpecQuery == InitDelete /\ [][NextQuery]_vars

\* the store of FixtureTheses with no session yet
InitSessionList ==
    /\ FixtureTheses
    /\ guidanceSessions = {}
    /\ submissions = {}
    /\ comments = {}
    /\ seq = [t \in TableNames |->
                 CASE t = "users" -> 3
                   [] t = "lecturers" -> 1
                   [] t \in {"students", "theses", "thesis_lecturers"} -> 2
                   [] OTHER -> 0]
    /\ IdleCalls

\* a date after every instant of the clock
LateDate == 2000

SessionListInputs ==
    [thesis_id : {1, 2}, session_date : {NoDate, EarlyDate, LateDate}, notes : {Null}]

NextSessionList ==
    \/ \E input \in SessionListInputs : CgsSelectThesis(input)
    \/ CgsInsertSession
    \/ \E id \in QueryIds : GetGuidanceSessionsByThesis([thesis_id |-> id])

SpecSessionList == InitSessionList /\ [][NextSessionList]_vars

\* the store of InitDelete with no comment yet: sessions 1 and 2, and
\* submissions 1 and 2 in session 1
InitComment ==
    /\ FixtureTheses
    /\ guidanceSessions =
          {[id |-> g, thesis_id |-> g, session_date |-> FirstInstant, notes |-> Null,
            created_at |-> FirstInstant, updated_at |-> FirstInstant] : g \in {1, 2}}
    /\ submissions =
          {[id |-> 1, guidance_session_id |-> 1, file_name |-> "f1", uploaded_by |-> 1,
            created_at |-> FirstInstant],
           [id |-> 2, guidance_session_id |-> 1, file_name |-> "f2", uploaded_by |-> 3,
            created_at |-> FirstInstant]}
    /\ comments = {}
    /\ seq = [t \in TableNames |->
                 CASE t = "users" -> 3
                   [] t = "lecturers" -> 1
                   [] t = "comments" -> 0
                   [] OTHER -> 2]
    /\ IdleCalls

\* submission_id: none, a submission of the session, a submission of another
\* session, 0, and ids 9 that are stored nowhere
CommentInputs ==
    {CommentInput(1, NullId, 1, 3), CommentInput(1, 1, 3, 1), CommentInput(2, 1, 3, 2),
     CommentInput(1, 0, 1, NullId), CommentInput(9, NullId, 1, NullId),
     CommentInput(1, 9, 1, NullId), CommentInput(9, 9, 1, NullId)}

NextComment ==
    \/ \E input \in CommentInputs : CcSelectSession(input)
    \/ CcSelectSubmission
    \/ CcInsertComment

SpecComment == InitComment /\ [][NextComment]_vars

NextLecturerTheses ==
    \/ \E input \in ThesisInputs : CtInsertThesis(input)
    \/ CtInsertLecturers
    \/ \E id \in QueryIds : GetThesesByLecturer([lecturer_id |-> id])

SpecLecturerTheses == InitThesis /\ [][NextLecturerTheses]_vars

----------------------------------------------------------------------------
(* Properties of registerUser and loginUser *)

UsernameTaken(name) == \E u \in users : u.username = name
EmailTaken(email) == \E u \in users : u.email = email

\* what the caller can observe of an outcome
Observable(r) == [ok |-> r.ok, error |-> r.error, value |-> r.value]

\* C4: a registerUser call whose username is taken when it is looked up ends
\* with 'Username already exists', one whose username is free and whose email
\* is taken ends with 'Email already exists'; both leave the users table as it
\* was, and the username is looked up first.
C4_RegisterConflicts ==
    [][\A p \in AuthProcs :
        /\ (reg[p].pc = "idle" /\ reg'[p].pc = "checkEmail")
              => ~UsernameTaken(reg'[p].input.username)
        /\ (reg[p].pc = "idle" /\ reg'[p].pc = "idle"
              /\ resp' # resp /\ resp'.op = "registerUser")
              => /\ UsernameTaken(resp'.req.username)
                 /\ resp' = Err("registerUser", resp'.req, "Username already exists")
                 /\ users' = users
        /\ (reg[p].pc = "checkEmail" /\ reg'[p].pc = "insert")
              => ~EmailTaken(reg[p].input.email)
        /\ (reg[p].pc = "checkEmail" /\ reg'[p].pc = "idle")
              => /\ EmailTaken(reg[p].input.email)
                 /\ resp' = Err("registerUser", reg[p].input, "Email already exists")
                 /\ users' = users
      ]_vars

\* a call refused for its username although its email is taken as well
C4_Witness ==
    /\ resp.op = "registerUser"
    /\ resp.error = "Username already exists"
    /\ UsernameTaken(resp.req.username)
    /\ EmailTaken(resp.req.email)

\* C5: whatever the interleaving of concurrent registerUser calls, no two
\* stored users share a username or an email, and at most one call per
\* username succeeds.
C5_UniqueUnderRace ==
    /\ \A u1, u2 \in users :
          u1 # u2 => u1.username # u2.username /\ u1.email # u2.email
    /\ \A r1, r2 \in registered : r1.username = r2.username => r1 = r2

\* two calls with one username both passed the checks; the second insert was refused
C5_Witness ==
    /\ resp.op = "registerUser"
    /\ resp.error = "unique_violation"
    /\ \E r \in registered : r.username = resp.req.username

\* the password is the one the stored user of that name registered with
PasswordMatches(input) ==
    \E r \in registered : r.username = input.username /\ r.password = input.password

C8_RegisterLoginRoundTrip ==
    \A r \in registered, q \in Passwords, jti \in Nonces :
        (\E u \in users : u.id = r.id)
        => LET res == LoginResult([username |-> r.username, password |-> q], jti, now, now)
           IN  IF q = r.password
               THEN /\ res.ok
                    /\ res.value.user.id = r.id
                    /\ Base64UrlDecode(res.value.token[2]).userId = r.id
               ELSE /\ ~res.ok
                    /\ res.error = "Invalid credentials"

\* a login succeeded for a user registered after an earlier one was deleted
C8_Witness ==
    /\ resp.op = "loginUser"
    /\ resp.ok
    /\ \E r \in registered : r.id = resp.value.user.id /\ r.id > 1
    /\ \E u \in users : u.id = resp.value.user.id

\* C9: the user returned by registerUser and by a successful loginUser has an
\* empty password_hash, while every row registerUser stored keeps a credential
\* that is neither empty nor the plaintext password.
C9_CredentialScrubbed ==
    /\ (resp.op = "registerUser" /\ resp.ok) => resp.value.password_hash = EmptyString
    /\ (resp.op = "loginUser" /\ resp.ok) => resp.value.user.password_hash = EmptyString
    /\ \A u \in users :
          /\ u.password_hash # EmptyString
          /\ \A r \in registered : r.id = u.id => u.password_hash # <<Str(r.password)>>

\* a registration just returned its user while the row is stored
C9_Witness ==
    /\ resp.op = "registerUser"
    /\ resp.ok
    /\ \E u \in users : u.id = resp.value.id /\ u.password_hash # resp.value.password_hash

----------------------------------------------------------------------------
(* Properties of the credential codec and of the tokens *)

\* no 'salt:hash' pair with a 64-byte hash part
Malformed(c) ==
    \/ Len(c) < 2
    \/ c[2].kind # "hex"
    \/ c[2].buf.len # KeyLen

\* C7: verifyPassword returns false, and does not throw, on a malformed
\* credential string, so that loginUser for a user whose stored password_hash
\* is malformed fails with 'Invalid credentials' and with no other error.
C7_MalformedCredentialRejected ==
    (/\ resp.op = "loginUser"
     /\ \E u \in users : u.username = resp.req.username /\ Malformed(u.password_hash))
    => /\ ~resp.ok
       /\ resp.error = "Invalid credentials"

\* C10: every token issued encodes the user's id as its subject and an expiry
\* that is its issued-at plus 24 hours, both on one time scale (seconds, or
\* milliseconds).
C10_TokenExpiry ==
    (resp.op = "loginUser" /\ resp.ok)
    => LET payload == Base64UrlDecode(resp.value.token[2])
       IN  /\ payload.userId = resp.value.user.id
           /\ \/ payload.exp - payload.iat = SecondsPerDay
              \/ payload.exp - payload.iat = SecondsPerDay * MsPerSecond

\* C11: a token issued by a successful loginUser differs textually from every
\* token a later successful loginUser issues for the same user at another
\* instant, whatever nonce the later call draws.
C11_TokensDifferOverTime ==
    (resp.op = "loginUser" /\ resp.ok)
    => \A jti \in Nonces, t1 \in now..LastInstant :
          \A t2 \in t1..LastInstant :
             t2 > now
             => LET later == LoginResult(resp.req, jti, t1, t2)
                IN  /\ later.ok
                    /\ later.value.user.id = resp.value.user.id
                    /\ later.value.token # resp.value.token

\* a token was just issued, before the last instant, with the nonce a later
\* call can draw again
C11_Witness ==
    /\ resp.op = "loginUser"
    /\ resp.ok
    /\ Base64UrlDecode(resp.value.token[2]).iat = now
    /\ now > FirstInstant
    /\ now < LastInstant

----------------------------------------------------------------------------
(* Properties of createThesis *)

PrimaryLinks(thesisId) ==
    {tl \in thesisLecturers : tl.thesis_id = thesisId /\ tl.is_primary}

\* C1: when createThesis fails at its thesis_lecturers insert, no thesis row
\* written by the call is left in the store.
C1_CreateThesisAtomic ==
    [][(ct.pc = "insertLecturers" /\ ct'.pc = "idle" /\ ~resp'.ok)
          => \A t \in theses' : t.id # ct.newThesis.id
      ]_vars

\* C2: with no createThesis call in flight, every stored thesis has exactly
\* one thesis_lecturers row marked primary.
C2_ExactlyOnePrimary ==
    ct.pc = "idle" => \A t \in theses : Cardinality(PrimaryLinks(t.id)) = 1

\* C3: the first statement of createThesis adds exactly one thesis row, with
\* the supplied status or PROPOSAL; a successful call then adds exactly one
\* thesis_lecturers row per supplied lecturer id, in the order supplied, the
\* first marked primary and no other, and returns the thesis.
C3_CreateThesisRows ==
    [][/\ (ct.pc = "idle" /\ ct'.pc = "insertLecturers")
            => /\ ct'.newThesis \notin theses
               /\ \A t \in theses : t.id # ct'.newThesis.id
               /\ theses' = theses \cup {ct'.newThesis}
               /\ thesisLecturers' = thesisLecturers
               /\ ct'.newThesis.student_id = ct'.input.student_id
               /\ ct'.newThesis.status =
                     IF ct'.input.status \in ThesisStatuses
                     THEN ct'.input.status ELSE "PROPOSAL"
       /\ (ct.pc = "insertLecturers" /\ ct'.pc = "idle" /\ resp'.ok)
            => LET ids == ct.input.lecturer_ids
                   added == thesisLecturers' \ thesisLecturers
               IN  /\ Len(ids) >= 1
                   /\ theses' = theses
                   /\ ct.newThesis \in theses
                   /\ resp'.value = ct.newThesis
                   /\ thesisLecturers \subseteq thesisLecturers'
                   /\ Cardinality(added) = Len(ids)
                   /\ added = {tl \in thesisLecturers' : tl.thesis_id = ct.newThesis.id}
                   /\ \A i \in 1..Len(ids) :
                         \E tl \in added :
                            /\ Cardinality({x \in added : x.id < tl.id}) = i - 1
                            /\ tl.lecturer_id = ids[i]
                            /\ tl.is_primary = (i = 1)
      ]_vars

\* a call with two lecturers and no status returned, and its rows are stored
C3_Witness ==
    /\ resp.op = "createThesis"
    /\ resp.ok
    /\ resp.req.status = Undefined
    /\ Len(resp.req.lecturer_ids) = 2
    /\ resp.value.status = "PROPOSAL"
    /\ Cardinality({tl \in thesisLecturers : tl.thesis_id = resp.value.id}) = 2

----------------------------------------------------------------------------
(* Properties of createStudent and createLecturer *)

RoleOf(id) == (CHOOSE u \in users : u.id = id).role

\* C12: createStudent (createLecturer) fails with 'User not found' when
\* user_id matches no user, else with the role error when the user's role is
\* not STUDENT (LECTURER), and reaches its insert only past both checks; the
\* insert fails on an external id already stored; every failure leaves the
\* students (lecturers) table as it was.
C12_ProfileCreationChecks ==
    [][/\ (call.pc = "idle" /\ call'.pc = "insert" /\ call'.op = "createStudent")
            => UserExists(call'.input.user_id) /\ RoleOf(call'.input.user_id) = "STUDENT"
       /\ (call.pc = "idle" /\ call'.pc = "insert" /\ call'.op = "createLecturer")
            => UserExists(call'.input.user_id) /\ RoleOf(call'.input.user_id) = "LECTURER"
       /\ (call.pc = "idle" /\ call'.pc = "idle" /\ resp' # resp
             /\ resp'.op \in {"createStudent", "createLecturer"})
            => /\ ~resp'.ok
               /\ UNCHANGED <<students, lecturers>>
               /\ IF ~UserExists(resp'.req.user_id)
                  THEN resp'.error = "User not found"
                  ELSE /\ RoleOf(resp'.req.user_id) #
                             (IF resp'.op = "createStudent" THEN "STUDENT" ELSE "LECTURER")
                       /\ resp'.error =
                             (IF resp'.op = "createStudent"
                              THEN "User must have STUDENT role"
                              ELSE "User must have LECTURER role")
       /\ (call.op = "createStudent" /\ call.pc = "insert" /\ call'.pc = "idle")
            => /\ (\E x \in students : x.student_id = call.input.student_id) => ~resp'.ok
               /\ IF resp'.ok
                  THEN students' = students \cup {resp'.value}
                  ELSE students' = students
               /\ lecturers' = lecturers
       /\ (call.op = "createLecturer" /\ call.pc = "insert" /\ call'.pc = "idle")
            => /\ (\E x \in lecturers : x.lecturer_id = call.input.lecturer_id) => ~resp'.ok
               /\ IF resp'.ok
                  THEN lecturers' = lecturers \cup {resp'.value}
                  ELSE lecturers' = lecturers
               /\ students' = students
      ]_vars

\* a createStudent call passed the user checks and was refused for its student_id
C12_Witness ==
    /\ resp.op = "createStudent"
    /\ ~resp.ok
    /\ UserExists(resp.req.user_id)
    /\ RoleOf(resp.req.user_id) = "STUDENT"
    /\ \E x \in students : x.student_id = resp.req.student_id

\* C13: no two students rows and no two lecturers rows share a user_id.
C13_OneProfilePerUser ==
    /\ \A s1, s2 \in students : s1.user_id = s2.user_id => s1 = s2
    /\ \A l1, l2 \in lecturers : l1.user_id = l2.user_id => l1 = l2

----------------------------------------------------------------------------
(* Properties of the references between the tables *)

\* C14: in every reachable state each reference of each stored row names a
\* stored row: students and lecturers their user, theses their student,
\* thesis_lecturers their thesis and lecturer, guidance sessions their
\* thesis, submissions their session and uploader, comments their session
\* and sender and, when set, their submission and receiver.
C14_ReferentialIntegrity ==
    /\ \A s \in students : UserExists(s.user_id)
    /\ \A l \in lecturers : UserExists(l.user_id)
    /\ \A t \in theses : \E s \in students : s.id = t.student_id
    /\ \A tl \in thesisLecturers :
          /\ ThesisExists(tl.thesis_id)
          /\ \E l \in lecturers : l.id = tl.lecturer_id
    /\ \A g \in guidanceSessions : ThesisExists(g.thesis_id)
    /\ \A x \in submissions :
          /\ SessionExists(x.guidance_session_id)
          /\ UserExists(x.uploaded_by)
    /\ \A c \in comments :
          /\ SessionExists(c.guidance_session_id)
          /\ UserExists(c.sender_id)
          /\ c.submission_id # NullId => SubmissionExists(c.submission_id)
          /\ c.receiver_id # NullId => UserExists(c.receiver_id)

\* the insert of a createComment call was refused although its sender and
\* receiver are stored: its session was deleted after the call selected it
C14_Witness ==
    /\ resp.op = "createComment"
    /\ resp.error = "foreign_key_violation"
    /\ resp.req.submission_id = NullId
    /\ UserExists(resp.req.sender_id)
    /\ UserExists(resp.req.receiver_id)
    /\ ~SessionExists(resp.req.guidance_session_id)

\* C15: in every reachable state the deletion of any stored user is carried
\* out with its cascade: no row that the cascade leaves holds the statement
\* back.
C15_UserDeletionSucceeds ==
    \A u \in users : ~Restricted(Cascade({u.id}, {}, {}, {}, {}, {}))

----------------------------------------------------------------------------
(* Properties of deleteThesis, deleteSubmission and deleteComment *)

\* a delete handler has just returned
Returns(op) == resp' # resp /\ resp'.op = op

AllTables == <<users, thesisTables, sessionTables>>

\* C16: when deleteThesis(id) returns true, the thesis, its thesis_lecturers
\* rows, its guidance sessions, their submissions and the comments of those
\* sessions and submissions are gone, and every other row of these tables and
\* every user, student and lecturer is as before.
C16_DeleteThesisCascade ==
    [][(Returns("deleteThesis") /\ resp'.value.deleted)
          => LET id == resp'.req.id
                 gs == {g.id : g \in {g \in guidanceSessions : g.thesis_id = id}}
                 subs == {x.id : x \in {x \in submissions : x.guidance_session_id \in gs}}
             IN  /\ theses' = {t \in theses : t.id # id}
                 /\ thesisLecturers' = {tl \in thesisLecturers : tl.thesis_id # id}
                 /\ guidanceSessions' = {g \in guidanceSessions : g.thesis_id # id}
                 /\ submissions' = {x \in submissions : x.guidance_session_id \notin gs}
                 /\ comments' = {c \in comments : /\ c.guidance_session_id \notin gs
                                                  /\ c.submission_id \notin subs}
                 /\ UNCHANGED <<users, students, lecturers>>
      ]_vars

\* deleteThesis(1) returned true: the session of thesis 2 is all that is left
C16_Witness ==
    /\ resp.op = "deleteThesis"
    /\ resp.value.deleted
    /\ resp.req.id = 1
    /\ {g.thesis_id : g \in guidanceSessions} = {2}
    /\ submissions = {} /\ comments = {}
    /\ Cardinality(users) = 3 /\ Cardinality(students) = 2

\* C17: deleteThesis, deleteSubmission and deleteComment return true exactly
\* when a row with the id was stored as the statement ran; they return false,
\* with no error, and leave every table as it was when none was; a second
\* delete of an id that returned true returns false.
C17_DeleteReportsRemoval ==
    [][\A op \in {"deleteThesis", "deleteSubmission", "deleteComment"} :
          Returns(op)
          => LET id == resp'.req.id
                 existed == CASE op = "deleteThesis" -> \E t \in theses : t.id = id
                              [] op = "deleteSubmission" -> \E x \in submissions : x.id = id
                              [] OTHER -> \E c \in comments : c.id = id
             IN  /\ resp'.ok
                 /\ resp'.value.deleted = existed
                 /\ ~existed => UNCHANGED AllTables
                 /\ (resp.op = op /\ resp.req.id = id /\ resp.value.deleted)
                       => ~resp'.value.deleted
      ]_vars

\* deleteSubmission returned true for an id and then false for the same id
C17_Witness ==
    /\ resp.op = "deleteSubmission"
    /\ resp.ok
    /\ ~resp.value.deleted
    /\ resp.req.id = 2
    /\ Ids(submissions) = {1}

\* C18: deleteComment(id) removes the comment with that id and nothing else;
\* deleteSubmission(id) removes that submission and the comments that
\* reference it and nothing else.
C18_DeleteLeavesSiblings ==
    [][/\ Returns("deleteComment")
            => /\ comments' = {c \in comments : c.id # resp'.req.id}
               /\ UNCHANGED <<users, thesisTables, guidanceSessions, submissions>>
       /\ Returns("deleteSubmission")
            => /\ submissions' = {x \in submissions : x.id # resp'.req.id}
               /\ comments' = {c \in comments : c.submission_id # resp'.req.id}
               /\ UNCHANGED <<users, thesisTables, guidanceSessions>>
      ]_vars

\* deleteSubmission(1) returned true: the other submission of the session and
\* the comment that references no submission are stored
C18_Witness ==
    /\ resp.op = "deleteSubmission"
    /\ resp.value.deleted
    /\ resp.req.id = 1
    /\ Ids(submissions) = {2}
    /\ Ids(comments) = {2}

----------------------------------------------------------------------------
(* Properties of updateThesis and updateGuidanceSession *)

Supplied(field, prior) == IF field = Undefined THEN prior ELSE field

\* C19: updateThesis on a stored thesis returns and stores that thesis with
\* each of title, description and status set to the supplied value (null for
\* a description supplied as null) or left as it was when omitted, with
\* updated_at set to the current instant and with id, student_id and
\* created_at as before; no other thesis and no row of another table changes.
C19_UpdateThesisPartial ==
    [][(Returns("updateThesis") /\ resp'.ok)
          => \E t \in theses :
                LET input == resp'.req
                    u == resp'.value
                IN  /\ t.id = input.id
                    /\ u.id = t.id
                    /\ u.student_id = t.student_id
                    /\ u.created_at = t.created_at
                    /\ u.title = Supplied(input.title, t.title)
                    /\ u.description = Supplied(input.description, t.description)
                    /\ u.status = Supplied(input.status, t.status)
                    /\ u.updated_at = now
                    /\ theses' = (theses \ {t}) \cup {u}
                    /\ UNCHANGED <<users, students, lecturers, thesisLecturers, sessionTables>>
      ]_vars

\* an update that supplied only a null description returned a thesis with the
\* title of an earlier update, no description and a later updated_at
C19_Witness ==
    /\ resp.op = "updateThesis"
    /\ resp.ok
    /\ resp.req.title = Undefined
    /\ resp.req.status = Undefined
    /\ resp.req.description = Null
    /\ resp.value.title = "t2"
    /\ resp.value.status = "COMPLETED"
    /\ resp.value.description = Null
    /\ resp.value.updated_at > resp.value.created_at
    /\ resp.value \in theses

\* C20: updateThesis and updateGuidanceSession called with an id that no row
\* has fail with their not-found error and leave every table as it was:
\* updateThesis fails exactly when no thesis has the id, and
\* updateGuidanceSession goes on to its update only for a stored session.
C20_UpdateNotFound ==
    [][/\ Returns("updateThesis")
            => /\ resp'.ok = (\E t \in theses : t.id = resp'.req.id)
               /\ ~resp'.ok
                     => /\ resp'.error = "Thesis with id "
                                            \o ToString(resp'.req.id) \o " not found"
                        /\ UNCHANGED AllTables
       /\ (call.pc = "idle" /\ call'.pc = "update")
            => \E g \in guidanceSessions : g.id = call'.input.id
       /\ (call.pc = "idle" /\ Returns("updateGuidanceSession"))
            => /\ ~\E g \in guidanceSessions : g.id = resp'.req.id
               /\ ~resp'.ok
               /\ resp'.error = "Guidance session with ID "
                                   \o ToString(resp'.req.id) \o " does not exist"
               /\ UNCHANGED AllTables
      ]_vars

\* updateGuidanceSession was refused for the id of a session that was stored
\* and has been deleted
C20_Witness ==
    /\ resp.op = "updateGuidanceSession"
    /\ ~resp.ok
    /\ resp.req.id = 1
    /\ ~SessionExists(1)
    /\ SessionExists(2)

----------------------------------------------------------------------------
(* Properties of the guidance session handlers *)

\* C21: an updateGuidanceSession call that returns a session has stored the
\* notes it was given, the empty string included, and the session's
\* updated_at is strictly greater than it was before the update statement,
\* also when no time passed since the session was created or last updated.
C21_UpdateRefreshesTimestamp ==
    [][(Returns("updateGuidanceSession") /\ resp'.ok /\ resp'.value # UndefinedValue)
          => \E g \in guidanceSessions :
                /\ g.id = resp'.req.id
                /\ resp'.value \in guidanceSessions'
                /\ resp'.value.notes = resp'.req.notes
                /\ resp'.value.updated_at > g.updated_at
      ]_vars

\* C22: createGuidanceSession for a thesis id that no thesis has fails with
\* 'Thesis with ID N does not exist' and changes no table; it goes on to the
\* insert only for a stored thesis, and a successful insert adds exactly the
\* returned session, for the thesis of the input, with the supplied
\* session_date or, when none was supplied, the current instant; a failed
\* call adds no session.
C22_CreateSessionChecks ==
    [][/\ (call.pc = "idle" /\ Returns("createGuidanceSession"))
            => /\ ~\E t \in theses : t.id = resp'.req.thesis_id
               /\ ~resp'.ok
               /\ resp'.error = "Thesis with ID " \o ToString(resp'.req.thesis_id)
                                   \o " does not exist"
               /\ UNCHANGED AllTables
       /\ (call.pc = "idle" /\ call'.op = "createGuidanceSession")
            => \E t \in theses : t.id = call'.input.thesis_id
       /\ (call.pc = "insert" /\ Returns("createGuidanceSession") /\ resp'.ok)
            => /\ resp'.value \notin guidanceSessions
               /\ guidanceSessions' = guidanceSessions \cup {resp'.value}
               /\ resp'.value.thesis_id = resp'.req.thesis_id
               /\ resp'.value.session_date =
                     (IF resp'.req.session_date = NoDate THEN now
                      ELSE resp'.req.session_date)
               /\ UNCHANGED <<users, thesisTables, submissions, comments>>
       /\ (Returns("createGuidanceSession") /\ ~resp'.ok)
            => UNCHANGED AllTables
      ]_vars

\* a session was created with a supplied date, another with none, and a call
\* for thesis 9 was refused
C22_Witness ==
    /\ resp.op = "createGuidanceSession"
    /\ ~resp.ok
    /\ resp.req.thesis_id = 9
    /\ \E g \in guidanceSessions : g.session_date = EarlyDate /\ g.created_at > EarlyDate
    /\ \E g \in guidanceSessions : g.session_date = g.created_at

\* C27: updateGuidanceSession never completes successfully with an absent
\* result, whatever deletion runs between its lookup and its update.
C27_UpdateNeverUndefined ==
    [][(Returns("updateGuidanceSession") /\ resp'.ok) => resp'.value # UndefinedValue]_vars

----------------------------------------------------------------------------
(* Properties of the query handlers *)

Range(r) == {r[i] : i \in 1..Len(r)}
NoRepeats(r) == \A i, j \in 1..Len(r) : r[i] = r[j] => i = j

\* the returned list holds each row of the set once and nothing else
ListsExactly(r, rows) == Range(r) = rows /\ NoRepeats(r)

ListQueries ==
    {"getThesesByStudent", "getSubmissionsBySession", "getCommentsBySession",
     "getCommentsBySubmission"}
GetByIdQueries ==
    {"getThesisById", "getStudentById", "getLecturerById", "getGuidanceSessionById",
     "getSubmissionById"}

\* the table a get-by-id handler reads
TableOf(op) ==
    CASE op = "getThesisById" -> theses
      [] op = "getStudentById" -> students
      [] op = "getLecturerById" -> lecturers
      [] op = "getGuidanceSessionById" -> guidanceSessions
      [] op = "getSubmissionById" -> submissions

\* C25: a query handler never fails and changes no table; getThesesByStudent,
\* getSubmissionsBySession, getCommentsBySession and getCommentsBySubmission
\* return each row whose foreign key equals the argument once and no other
\* row, so the empty list when no row matches or the parent is not stored;
\* a get-by-id handler returns the row with the id, and null when no row has
\* it.
C25_QueriesFilterExactly ==
    [][/\ \A op \in ListQueries \cup GetByIdQueries :
             Returns(op) => resp'.ok /\ UNCHANGED AllTables
       /\ Returns("getThesesByStudent")
            => ListsExactly(resp'.value.rows,
                            {t \in theses : t.student_id = resp'.req.student_id})
       /\ Returns("getSubmissionsBySession")
            => ListsExactly(resp'.value.rows,
                            {x \in submissions : x.guidance_session_id = resp'.req.sessionId})
       /\ Returns("getCommentsBySession")
            => ListsExactly(resp'.value.rows,
                            {c \in comments :
                                c.guidance_session_id = resp'.req.guidance_session_id})
       /\ Returns("getCommentsBySubmission")
            => ListsExactly(resp'.value.rows,
                            {c \in comments : c.submission_id = resp'.req.submissionId})
       /\ \A op \in GetByIdQueries :
             Returns(op)
                => IF \E r \in TableOf(op) : r.id = resp'.req.id
                   THEN resp'.value \in TableOf(op) /\ resp'.value.id = resp'.req.id
                   ELSE resp'.value = NullValue
      ]_vars

\* getThesesByStudent returned the empty list for a stored student whose
\* thesis was deleted
C25_Witness ==
    /\ resp.op = "getThesesByStudent"
    /\ resp.ok
    /\ resp.value.rows = <<>>
    /\ resp.req.student_id = 1
    /\ \E x \in students : x.id = 1
    /\ theses # {}

\* C26: getGuidanceSessionsByThesis returns each session of the thesis once,
\* no session of another thesis, and no session before one with a later
\* session_date, in whatever order the sessions were created.
C26_SessionsNewestFirst ==
    [][Returns("getGuidanceSessionsByThesis")
          => LET r == resp'.value.rows
             IN  /\ resp'.ok
                 /\ ListsExactly(r, {g \in guidanceSessions :
                                        g.thesis_id = resp'.req.thesis_id})
                 /\ \A i, j \in 1..Len(r) : i < j => r[i].session_date >= r[j].session_date
      ]_vars

\* the list for thesis 1 starts with the session created last, while thesis 2
\* has a session too
C26_Witness ==
    /\ resp.op = "getGuidanceSessionsByThesis"
    /\ resp.req.thesis_id = 1
    /\ Len(resp.value.rows) = 2
    /\ resp.value.rows[1].id > resp.value.rows[2].id
    /\ resp.value.rows[1].session_date > resp.value.rows[2].session_date
    /\ \E g \in guidanceSessions : g.thesis_id = 2

\* C28: getThesesByLecturer returns each thesis that has a thesis_lecturers
\* row of the lecturer exactly once, and no other thesis.
C28_LecturerThesesOnce ==
    [][Returns("getThesesByLecturer")
          => /\ resp'.ok
             /\ ListsExactly(resp'.value.rows,
                             {t \in theses :
                                 \E l \in thesisLecturers :
                                    /\ l.thesis_id = t.id
                                    /\ l.lecturer_id = resp'.req.lecturer_id})
      ]_vars

----------------------------------------------------------------------------
(* Properties of createSubmission and createComment *)

\* C23: createSubmission fails with a foreign-key violation exactly when its
\* guidance_session_id or its uploaded_by matches no stored row, and then no
\* table changes; otherwise it adds the returned submission.
C23_SubmissionReferences ==
    [][Returns("createSubmission")
          => LET referencesOk ==
                    /\ \E g \in guidanceSessions : g.id = resp'.req.guidance_session_id
                    /\ \E u \in users : u.id = resp'.req.uploaded_by
             IN  /\ resp'.ok = referencesOk
                 /\ ~referencesOk
                       => /\ resp'.error = "foreign_key_violation"
                          /\ UNCHANGED AllTables
                 /\ referencesOk
                       => /\ submissions' = submissions \cup {resp'.value}
                          /\ UNCHANGED <<users, thesisTables, guidanceSessions, comments>>
      ]_vars

\* a submission for the stored session 1 was refused for its uploaded_by
C23_Witness ==
    /\ resp.op = "createSubmission"
    /\ ~resp.ok
    /\ resp.error = "foreign_key_violation"
    /\ resp.req.guidance_session_id = 1
    /\ SessionExists(1)
    /\ ~UserExists(resp.req.uploaded_by)

\* C24: createComment fails with 'Guidance session not found' when no session
\* has guidance_session_id, whatever the submission_id; for a stored session
\* and every submission_id other than null that no submission has, it fails
\* with 'Submission not found'; a failed call adds no comment.
C24_CommentNotFound ==
    [][Returns("createComment")
          => LET input == resp'.req
                 sessionStored == \E g \in guidanceSessions : g.id = input.guidance_session_id
                 submissionStored == \E x \in submissions : x.id = input.submission_id
             IN  /\ ~sessionStored
                       => ~resp'.ok /\ resp'.error = "Guidance session not found"
                 /\ (sessionStored /\ input.submission_id # NullId /\ ~submissionStored)
                       => ~resp'.ok /\ resp'.error = "Submission not found"
                 /\ ~resp'.ok => comments' = comments
      ]_vars

\* C30: every comment with a submission_id has the guidance_session_id of
\* that submission.
C30_CommentInSubmissionSession ==
    \A c \in comments :
        c.submission_id # NullId
           => \E x \in submissions :
                 /\ x.id = c.submission_id
                 /\ x.guidance_session_id = c.guidance_session_id

\* C29: the user of every students row has role STUDENT and the user of
\* every lecturers row has role LECTURER.
C29_ProfileRoles ==
    /\ \A x \in students : \E u \in users : u.id = x.user_id /\ u.role = "STUDENT"
    /\ \A l \in lecturers : \E u \in users : u.id = l.user_id /\ u.role = "LECTURER"

\* a student and a lecturer are stored, and a createLecturer call for a user
\* of another role was refused
C29_Witness ==
    /\ students # {}
    /\ lecturers # {}
    /\ resp.op = "createLecturer"
    /\ resp.error = "User must have LECTURER role"

====
